---- MODULE Spec2Model ----
(***************************************************************************)
(* Model of the `release` command of poetry-plugin-github-release          *)
(* (src/poetry_plugin_github_release/plugin.py).                           *)
(*                                                                         *)
(* Python strings are sequences of one-character strings, so that the     *)
(* parsing code (startswith, strip, split, slicing, the header regular    *)
(* expression) is modelled by what it does to the characters.              *)
(***************************************************************************)
EXTENDS Integers, Sequences, FiniteSets, TLC

VARIABLES
    \* The environment of one run of the command.
    local_config,      \* self._poetry.local_config: the [tool.poetry] table
    git_config,        \* the file <project root>/.git/config
    environ,           \* os.environ
    dist,              \* the names of the files of <project root>/dist
    pre_release,       \* self.option("pre-release", False)
    \* ReleaseCommand.handle: position and locals.
    pc, raised, exit_code, io, requests, responses,
    short_version, remote, github_token, github_username, github_release, files, idx,
    \* __find_git_remotes: argument and locals.
    lines, ps,
    \* ReleaseCommand.handle of the module poetry_github_release_plugin, run
    \* in the same environment: its position, locals, output and requests.
    legacy

envvars == <<local_config, git_config, environ, dist, pre_release>>

ctlvars == <<pc, raised, exit_code>>

netvars == <<requests, responses>>

locvars == <<short_version, remote, github_token, github_username, github_release, files, idx>>

parsevars == <<lines, ps>>

vars == <<envvars, ctlvars, io, netvars, locvars, parsevars, legacy>>

(***************************************************************************)
(* Bounds of the model.                                                    *)
(***************************************************************************)
\* Largest number of lines of a configuration text given to the parser.
MaxLines == 5

(***************************************************************************)
(* Python str operations, on sequences of characters.                      *)
(***************************************************************************)
Lower == {"a", "b", "c", "d", "e", "f", "g", "h", "i", "j", "k", "l", "m",
          "n", "o", "p", "q", "r", "s", "t", "u", "v", "w", "x", "y", "z"}

Digits == {"0", "1", "2", "3", "4", "5", "6", "7", "8", "9"}

Whitespace == {" ", "\t", "\n", "\r"}

StartsWith(s, p) == Len(s) >= Len(p) /\ SubSeq(s, 1, Len(p)) = p

EndsWith(s, p) == Len(s) >= Len(p) /\ SubSeq(s, Len(s) - Len(p) + 1, Len(s)) = p

Drop(s, n) == SubSeq(s, n + 1, Len(s))

RECURSIVE LStrip(_)
LStrip(s) == IF s # <<>> /\ Head(s) \in Whitespace THEN LStrip(Tail(s)) ELSE s

RECURSIVE RStrip(_)
RStrip(s) ==
    IF s # <<>> /\ s[Len(s)] \in Whitespace THEN RStrip(SubSeq(s, 1, Len(s) - 1)) ELSE s

Strip(s) == RStrip(LStrip(s))

\* s.split(sep) for a one-character separator: the list of pieces.
RECURSIVE SplitFrom(_, _, _, _)
SplitFrom(s, sep, k, piece) ==
    IF k > Len(s) THEN <<piece>>
    ELSE IF s[k] = sep THEN <<piece>> \o SplitFrom(s, sep, k + 1, <<>>)
    ELSE SplitFrom(s, sep, k + 1, Append(piece, s[k]))

Split(s, sep) == SplitFrom(s, sep, 1, <<>>)

\* Python list indexing l[k], k possibly negative; IndexError is reported
\* through InRange.
InRange(l, k) == IF k >= 0 THEN k < Len(l) ELSE -k <= Len(l)

Item(l, k) == IF k >= 0 THEN l[k + 1] ELSE l[Len(l) + k + 1]

\* Length of the longest prefix of s made of characters of set cs.
RECURSIVE SpanLen(_, _)
SpanLen(s, cs) == IF s # <<>> /\ Head(s) \in cs THEN 1 + SpanLen(Tail(s), cs) ELSE 0

(***************************************************************************)
(* __find_git_remotes                                                      *)
(***************************************************************************)
NoMatch == [matched |-> FALSE, group1 |-> <<>>]

HeaderPrefix == <<"[", "r", "e", "m", "o", "t", "e", " ", "\"">>

HeaderSuffix == <<"\"", "]", "\n">>

\* RemotePatternMatch with a pattern that takes every section header for a
\* remote (\[.*\]\n in place of the pattern of line 61).
RemotePatternMatchAnySection(line) ==
    IF StartsWith(line, <<"[">>) /\ EndsWith(line, <<"]", "\n">>)
    THEN [matched |-> TRUE, group1 |-> SubSeq(line, 2, Len(line) - 2)]
    ELSE NoMatch

\* remote_pattern.match(line) with remote_pattern = \[remote "([a-z]*)"\]\n :
\* anchored at the start of the line only; the greedy [a-z]* never has to
\* give characters back, since the character that follows it is a quote.
RemotePatternMatch(line) ==
    IF ~StartsWith(line, HeaderPrefix) THEN NoMatch
    ELSE LET rest == Drop(line, Len(HeaderPrefix))
             n    == SpanLen(rest, Lower)
         IN  IF StartsWith(Drop(rest, n), HeaderSuffix)
             THEN [matched |-> TRUE, group1 |-> SubSeq(rest, 1, n)]
             ELSE NoMatch

UrlKey == <<"u", "r", "l", " ", "=", " ">>

\* lines[i].strip().startswith("url = ")
IsUrlLine(line) == StartsWith(Strip(line), UrlKey)

\* lines[i].split("=")[-1].strip()
UrlValue(line) == Strip(Item(Split(line, "="), -1))

GitAt == <<"g", "i", "t", "@">>

DotGit == <<".", "g", "i", "t">>

\* The pieces the owner and the name are taken from, and the two indexes
\* used on them (lines 89-96).
OwnerNamePieces(remote_url) ==
    IF StartsWith(remote_url, GitAt)
    THEN [pieces |-> Split(Item(Split(remote_url, ":"), -1), "/"), owner |-> 0, name |-> 1]
    ELSE [pieces |-> Split(remote_url, "/"), owner |-> -2, name |-> -1]

\* Whether lines 89-96 raise IndexError on this url.
OwnerNameRaises(remote_url) ==
    LET p == OwnerNamePieces(remote_url)
    IN  ~InRange(p.pieces, p.owner) \/ ~InRange(p.pieces, p.name)

RepoOwner(remote_url) ==
    LET p == OwnerNamePieces(remote_url) IN Item(p.pieces, p.owner)

\* RepoName without lines 98-100: the ".git" suffix is kept.
RepoNameKeepsSuffix(remote_url) ==
    LET p == OwnerNamePieces(remote_url) IN Item(p.pieces, p.name)

\* Lines 92/96 and 98-100: one ".git" suffix is removed.
RepoName(remote_url) ==
    LET p == OwnerNamePieces(remote_url)
        n == Item(p.pieces, p.name)
    IN  IF EndsWith(n, DotGit) THEN SubSeq(n, 1, Len(n) - 4) ELSE n

GitRemote(name, url) ==
    [name |-> name, url |-> url, repo_name |-> RepoName(url), repo_owner |-> RepoOwner(url)]

\* The parser's locals on entry (lines 61-63).
ParserInit ==
    [pc |-> "outer", i |-> 0, remote_name |-> <<>>, remote_url |-> <<>>, remotes |-> <<>>]

\* One evaluation of the outer loop test and of lines 66-78.
OuterStep(ls, st) ==
    IF ~(st.i < Len(ls)) THEN [st EXCEPT !.pc = "returned"]
    ELSE LET m == RemotePatternMatch(ls[st.i + 1])
         IN  IF ~m.matched THEN [st EXCEPT !.i = st.i + 1]
             ELSE [st EXCEPT !.i = st.i + 1, !.pc = "inner",
                             !.remote_name = m.group1, !.remote_url = <<>>]

\* Lines 84-110, run when the inner loop ends.
FinishSection(st) ==
    IF Len(st.remote_url) = 0 THEN [st EXCEPT !.pc = "outer"]
    ELSE IF OwnerNameRaises(st.remote_url) THEN [st EXCEPT !.pc = "IndexError"]
    ELSE [st EXCEPT !.pc = "outer",
                    !.remotes = Append(st.remotes, GitRemote(st.remote_name, st.remote_url))]

\* InnerStep with line 81 run only while no url has been found: the first
\* url line of a section wins.
InnerStepFirstUrlWins(ls, st) ==
    IF ~InRange(ls, st.i) THEN [st EXCEPT !.pc = "IndexError"]
    ELSE IF StartsWith(ls[st.i + 1], <<"[">>) THEN FinishSection(st)
    ELSE [st EXCEPT !.i = st.i + 1,
                    !.remote_url = IF IsUrlLine(ls[st.i + 1]) /\ st.remote_url = <<>>
                                   THEN UrlValue(ls[st.i + 1])
                                   ELSE st.remote_url]

\* One evaluation of the inner loop test (line 79) and of its body (80-82).
\* The test reads lines[i] without comparing i with len(lines).
InnerStep(ls, st) ==
    IF ~InRange(ls, st.i) THEN [st EXCEPT !.pc = "IndexError"]
    ELSE IF StartsWith(ls[st.i + 1], <<"[">>) THEN FinishSection(st)
    ELSE [st EXCEPT !.i = st.i + 1,
                    !.remote_url = IF IsUrlLine(ls[st.i + 1])
                                   THEN UrlValue(ls[st.i + 1])
                                   ELSE st.remote_url]

ParserStep(ls, st) == IF st.pc = "outer" THEN OuterStep(ls, st) ELSE InnerStep(ls, st)

ParserDone(st) == st.pc \in {"returned", "IndexError"}

\* The whole call: the final locals, with pc "returned" (the result is
\* remotes) or "IndexError" (the call raised).
RECURSIVE RunParser(_, _)
RunParser(ls, st) == IF ParserDone(st) THEN st ELSE RunParser(ls, ParserStep(ls, st))

FindGitRemotes(ls) == RunParser(ls, ParserInit)

(***************************************************************************)
(* Configuration texts given to the parser.                                *)
(***************************************************************************)
Header(name) == HeaderPrefix \o name \o HeaderSuffix

UrlLine(url) == <<"\t">> \o UrlKey \o url \o <<"\n">>

\* The two url forms, with or without the ".git" suffix.
SshUrl(host, owner, repo, dot_git) ==
    GitAt \o host \o <<":">> \o owner \o <<"/">> \o repo \o (IF dot_git THEN DotGit ELSE <<>>)

HttpsUrl(host, owner, repo, dot_git) ==
    <<"h", "t", "t", "p", "s", ":", "/", "/">> \o host \o <<"/">> \o owner \o <<"/">> \o repo
        \o (IF dot_git THEN DotGit ELSE <<>>)

Hosts == { <<"h">>, <<"h", ".", "i", "o">> }

Owners == { <<"o">>, <<"o", "-", "p">> }

Repos == { <<"r">>, <<"r", ".", "x">> }

Urls ==
    { SshUrl(h, o, r, g) : h \in Hosts, o \in Owners, r \in Repos, g \in BOOLEAN }
        \cup { HttpsUrl(h, o, r, g) : h \in Hosts, o \in Owners, r \in Repos, g \in BOOLEAN }

UrlSshGit == SshUrl(<<"h">>, <<"o">>, <<"r">>, TRUE)

UrlHttps == HttpsUrl(<<"h">>, <<"o">>, <<"r">>, FALSE)

CoreSection == <<"[", "c", "o", "r", "e", "]", "\n">>

BareLine == <<"\t", "b", "a", "r", "e", " ", "=", " ", "n", "o", "\n">>

ConfigLines ==
    { Header(<<"a">>), Header(<<"b">>), CoreSection, BareLine,
      UrlLine(UrlSshGit), UrlLine(UrlHttps) }

RECURSIVE SeqsUpTo(_, _)
SeqsUpTo(S, n) ==
    IF n = 0 THEN {<<>>}
    ELSE LET shorter == SeqsUpTo(S, n - 1)
         IN  shorter \cup { Append(s, x) : s \in {t \in shorter : Len(t) = n - 1}, x \in S }

\* Urls whose last path segment ends with ".git" twice.
UrlsDoubleGit ==
    { SshUrl(<<"h">>, <<"o">>, <<"r">> \o DotGit, TRUE),
      HttpsUrl(<<"h">>, <<"o">>, <<"r">> \o DotGit, TRUE) }

\* Section headers the pattern of line 61 does not match: a remote name
\* with a capital letter, a digit or a hyphen, and another kind of section.
OtherHeaders ==
    { Header(<<"A">>), Header(<<"a", "1">>), Header(<<"a", "-", "b">>),
      <<"[", "s", "u", "b", "m", "o", "d", "u", "l", "e", " ", "\"", "a", "\"", "]", "\n">> }

\* Texts with such a header before, after and between the sections of a
\* remote.
OtherHeaderConfigs ==
    UNION { { <<h, UrlLine(UrlSshGit)>>,
              <<h, UrlLine(UrlSshGit), CoreSection>>,
              <<h, UrlLine(UrlSshGit), Header(<<"a">>), UrlLine(UrlHttps), CoreSection>>,
              <<Header(<<"a">>), UrlLine(UrlHttps), h, UrlLine(UrlSshGit)>>,
              <<Header(<<"a">>), h, UrlLine(UrlSshGit)>>,
              <<h, Header(<<"a">>)>> } : h \in OtherHeaders }

\* The texts of at most MaxLines lines, one remote section for each url of
\* Urls and of UrlsDoubleGit, and the texts of OtherHeaderConfigs.
Configs ==
    SeqsUpTo(ConfigLines, MaxLines)
        \cup { <<Header(<<"a">>), UrlLine(u), CoreSection>> : u \in Urls \cup UrlsDoubleGit }
        \cup OtherHeaderConfigs

(***************************************************************************)
(* Console output: self.write appends to the current line, self.line      *)
(* appends and ends the line.  A line is the sequence of its fragments.    *)
(***************************************************************************)
Fragment(msg, args) == [msg |-> msg, args |-> args]

Write(o, f) == [o EXCEPT !.pending = Append(o.pending, f)]

Line(o, f) == [lines |-> Append(o.lines, Append(o.pending, f)), pending |-> <<>>]

(***************************************************************************)
(* The version string (lines 248-257).                                     *)
(***************************************************************************)
Contains(s, c) == \E k \in 1..Len(s) : s[k] = c

IsNumeric(c) == c \in Digits

\* split_version[1][0] raises IndexError when the segment is empty.
ShortVersionRaises(version) ==
    Contains(version, "-") /\ Len(Item(Split(version, "-"), 1)) = 0

\* ShortVersion taking the digits from what follows the first character of
\* the segment, so that a leading digit is not repeated.
ShortVersionDigitsAfterFirst(version) ==
    IF Contains(version, "-")
    THEN LET split_version == Split(version, "-")
         IN  Item(split_version, 0)
                 \o <<Item(Item(split_version, 1), 0)>>
                 \o SelectSeq(Tail(Item(split_version, 1)), IsNumeric)
    ELSE version

\* Lines 250-257.
ShortVersion(version) ==
    IF Contains(version, "-")
    THEN LET split_version == Split(version, "-")
         IN  Item(split_version, 0)
                 \o <<Item(Item(split_version, 1), 0)>>
                 \o SelectSeq(Item(split_version, 1), IsNumeric)
    ELSE version

(***************************************************************************)
(* __github_create_release                                                 *)
(***************************************************************************)
\* requests.post raises requests.exceptions.Timeout when the timeout given
\* to it expires; otherwise it returns a response with a status code and a
\* body, and response.json() raises JSONDecodeError on a body that is not
\* JSON.
Timeout == [kind |-> "timeout"]

Response(status, body) == [kind |-> "response", status |-> status, body |-> body]

NotJson == [json |-> FALSE]

ErrorDoc == [json |-> TRUE, message |-> "error"]

UploadUrlTemplate == <<"u", "p", "{", "?", "n", "}">>

ReleaseDoc ==
    [json |-> TRUE, id |-> 1, url |-> "releases/1", upload_url |-> UploadUrlTemplate]

AssetDoc == [json |-> TRUE, id |-> 2]

FailureStatuses == {422, 500}

CreateOutcomes ==
    {Timeout} \cup {Response(201, b) : b \in {ReleaseDoc, NotJson}}
              \cup {Response(s, b) : s \in FailureStatuses, b \in {ErrorDoc, NotJson}}

UploadOutcomes ==
    {Timeout} \cup {Response(201, b) : b \in {AssetDoc, NotJson}}
              \cup {Response(s, b) : s \in FailureStatuses, b \in {ErrorDoc, NotJson}}

\* CreateReleaseRequest without the pre_release argument: "prerelease" is
\* always false.
CreateReleaseRequestNeverPre(rem, version, username, token, pre) ==
    [kind |-> "create_release",
     method |-> "POST",
     url |-> <<"https://api.github.com/repos", rem.repo_owner, rem.repo_name, "releases">>,
     auth |-> <<username, token>>,
     json |-> [tag_name |-> version, target_commitish |-> "main",
               generate_release_notes |-> TRUE, prerelease |-> FALSE],
     timeout |-> 60]

\* Lines 130-146: the request posted.
CreateReleaseRequest(rem, version, username, token, pre) ==
    [kind |-> "create_release",
     method |-> "POST",
     url |-> <<"https://api.github.com/repos", rem.repo_owner, rem.repo_name, "releases">>,
     auth |-> <<username, token>>,
     json |-> [tag_name |-> version, target_commitish |-> "main",
               generate_release_notes |-> TRUE, prerelease |-> pre],
     timeout |-> 60]

MsgRequestFailed == "Request failed with status code"

\* CreateReleaseResult keeping the whole upload_url template (line 159
\* without split("{")[0]).
CreateReleaseResultWholeTemplate(outcome) ==
    IF outcome.kind = "timeout" THEN [kind |-> "raise", exc |-> "Timeout"]
    ELSE IF ~outcome.body.json THEN [kind |-> "raise", exc |-> "JSONDecodeError"]
    ELSE IF outcome.status # 201
    THEN [kind |-> "str", value |-> Fragment(MsgRequestFailed, <<outcome.status, outcome.body>>)]
    ELSE [kind |-> "release",
          value |-> [uid |-> outcome.body.id, url |-> outcome.body.url,
                     url_upload |-> outcome.body.upload_url]]

\* Lines 136-162 from the outcome of the post on: what the call returns
\* (an error string or a GitHubRelease) or raises.
CreateReleaseResult(outcome) ==
    IF outcome.kind = "timeout" THEN [kind |-> "raise", exc |-> "Timeout"]
    ELSE IF ~outcome.body.json THEN [kind |-> "raise", exc |-> "JSONDecodeError"]
    ELSE IF outcome.status # 201
    THEN [kind |-> "str", value |-> Fragment(MsgRequestFailed, <<outcome.status, outcome.body>>)]
    ELSE [kind |-> "release",
          value |-> [uid |-> outcome.body.id, url |-> outcome.body.url,
                     url_upload |-> Item(Split(outcome.body.upload_url, "{"), 0)]]

(***************************************************************************)
(* __github_upload_asset                                                   *)
(***************************************************************************)
\* os.path.basename(path): what follows the last "/".
Basename(path) == Item(Split(path, "/"), -1)

\* os.path.splitext(path)[-1]: from the last dot of the base name on, empty
\* when the base name has no dot after its leading dots.
SplitExt(path) ==
    LET name == Basename(path)
        lead == SpanLen(name, {"."})
        dots == {k \in (lead + 1)..Len(name) : name[k] = "."}
    IN  IF dots = {} \/ lead = Len(name) THEN <<>>
        ELSE LET k == CHOOSE d \in dots : \A e \in dots : e <= d
             IN  SubSeq(name, k, Len(name))

ContentTypeBytes == "application/octet-stream"

\* ContentType without the ".gz" entry of lines 188-189: every asset is
\* application/octet-stream.
ContentTypeAlwaysBytes(asset) == ContentTypeBytes

\* Lines 187-190.
ContentType(asset) ==
    IF SplitExt(asset) = <<".", "g", "z">> THEN "application/gzip" ELSE ContentTypeBytes

\* What requests derives from auth=(username, token): the header value
\* "Basic " + base64(username + ":" + token), from which both are read back.
BasicAuth(username, token) == [scheme |-> "Basic", credentials |-> <<username, token>>]

\* response.request.headers of the post of lines 204-210.
RequestHeaders(asset, username, token) ==
    [Content_Type |-> IF ContentType(asset) = ContentTypeBytes
                      THEN "multipart/form-data" ELSE ContentType(asset),
     Authorization |-> BasicAuth(username, token)]

\* Lines 186-210: the request posted.
UploadAssetRequest(asset, release, username, token) ==
    [kind |-> "upload_asset",
     method |-> "POST",
     url |-> release.url_upload,
     auth |-> <<username, token>>,
     params |-> <<<<"name", Basename(asset)>>>>,
     files |-> IF ContentType(asset) = ContentTypeBytes
               THEN <<[field |-> "file", filename |-> "file", data |-> asset,
                       type |-> ContentType(asset)]>>
               ELSE <<>>,
     data |-> IF ContentType(asset) = ContentTypeBytes THEN <<>> ELSE <<asset>>,
     headers |-> IF ContentType(asset) = ContentTypeBytes
                 THEN <<>> ELSE <<[Content_Type |-> ContentType(asset)]>>,
     timeout |-> 120]

MsgNoAsset == "Provided asset file doesn't exist or isn't a file."

\* Lines 178-180: the return value when the asset is not an existing file.
UploadAssetMissing == [kind |-> "str", value |-> Fragment(MsgNoAsset, <<>>)]

\* Lines 204-219 from the outcome of the post on: None, an error string, or
\* an exception.
UploadAssetResult(outcome, asset, username, token) ==
    IF outcome.kind = "timeout" THEN [kind |-> "raise", exc |-> "Timeout"]
    ELSE IF outcome.status = 201 THEN [kind |-> "None"]
    ELSE IF ~outcome.body.json THEN [kind |-> "raise", exc |-> "JSONDecodeError"]
    ELSE [kind |-> "str",
          value |-> Fragment(MsgRequestFailed,
                             <<outcome.status, outcome.body,
                               RequestHeaders(asset, username, token)>>)]

(***************************************************************************)
(* __get_built_files                                                       *)
(***************************************************************************)
\* The characters of the model in code point order.
CodePoints ==
    <<"\t", "\n", "\r", " ", "\"", "-", ".", "/",
      "0", "1", "2", "3", "4", "5", "6", "7", "8", "9", ":", "=", "?", "@",
      "A", "B", "C", "D", "E", "F", "G", "H", "I", "J", "K", "L", "M",
      "N", "O", "P", "Q", "R", "S", "T", "U", "V", "W", "X", "Y", "Z",
      "[", "]", "_",
      "a", "b", "c", "d", "e", "f", "g", "h", "i", "j", "k", "l", "m",
      "n", "o", "p", "q", "r", "s", "t", "u", "v", "w", "x", "y", "z", "{", "}">>

Ord(c) == CHOOSE k \in 1..Len(CodePoints) : CodePoints[k] = c

\* a < b for str.
RECURSIVE StrLess(_, _)
StrLess(a, b) ==
    IF b = <<>> THEN FALSE
    ELSE IF a = <<>> THEN TRUE
    ELSE IF Head(a) = Head(b) THEN StrLess(Tail(a), Tail(b))
    ELSE Ord(Head(a)) < Ord(Head(b))

\* sorted(...) of a collection without duplicates.
RECURSIVE Sorted(_)
Sorted(S) ==
    IF S = {} THEN <<>>
    ELSE LET m == CHOOSE x \in S : \A y \in S \ {x} : StrLess(x, y)
         IN  <<m>> \o Sorted(S \ {m})

\* str.lower() of one character: the k-th capital letter becomes the k-th
\* small letter.
LowerChar(c) ==
    IF Ord("A") <= Ord(c) /\ Ord(c) <= Ord("Z")
    THEN CodePoints[Ord("a") + (Ord(c) - Ord("A"))]
    ELSE c

\* poetry-core's escape_name, re.sub(r"[-_.]+", "_", name).lower(): each
\* run of "-", "_", "." becomes one "_", and capital letters become small.
RECURSIVE EscapeName(_)
EscapeName(name) ==
    IF name = <<>> THEN <<>>
    ELSE IF Head(name) \in {"-", "_", "."}
    THEN <<"_">> \o EscapeName(Drop(name, SpanLen(name, {"-", "_", "."})))
    ELSE <<LowerChar(Head(name))>> \o EscapeName(Tail(name))

DotWhl == <<".", "w", "h", "l">>

DotTarGz == <<".", "t", "a", "r", ".", "g", "z">>

\* dist.glob(f"{escape_name(pretty_name)}-{version}-*.whl")
IsWheel(f, pretty_name, version) ==
    LET prefix == EscapeName(pretty_name) \o <<"-">> \o version \o <<"-">>
    IN  /\ Len(f) >= Len(prefix) + Len(DotWhl)
        /\ StartsWith(f, prefix)
        /\ EndsWith(f, DotWhl)

\* dist.glob(f"{pretty_name}-{version}.tar.gz")
IsTar(f, pretty_name, version) == f = pretty_name \o <<"-">> \o version \o DotTarGz

\* self._poetry.file.parent / "dist" (line 229), and dist / name, the path
\* glob gives for a file of the directory.
DistDir == <<"/", "w", "/", "d", "i", "s", "t">>

PathJoin(dir, name) == dir \o <<"/">> \o name

\* GetBuiltFiles without sorted(): the wheels, then the archives.
GetBuiltFilesUnsorted(d, pretty_name, version) ==
    Sorted({PathJoin(DistDir, f) : f \in {g \in d : IsWheel(g, pretty_name, version)}})
        \o Sorted({PathJoin(DistDir, f) : f \in {g \in d : IsTar(g, pretty_name, version)}})

\* Lines 221-234; d is the set of file names of the dist directory.
GetBuiltFiles(d, pretty_name, version) ==
    Sorted({PathJoin(DistDir, f) : f \in {g \in d : IsWheel(g, pretty_name, version)}}
               \cup {PathJoin(DistDir, f) : f \in {g \in d : IsTar(g, pretty_name, version)}})

(***************************************************************************)
(* The environments a run is checked in.                                   *)
(***************************************************************************)
PackageName == <<"P", ".", "q">>

Versions ==
    { <<"1">>, <<"1", "-", "a", "2">>, <<"1", "-">>, <<"1", "-", "b", "-", "3">> }

LocalConfigs ==
    {[name |-> PackageName]} \cup {[name |-> PackageName, version |-> v] : v \in Versions}

GitConfigData ==
    { <<>>,
      <<Header(<<"a">>), UrlLine(UrlSshGit), CoreSection>>,
      <<CoreSection, Header(<<"a">>), UrlLine(UrlHttps), CoreSection>>,
      <<Header(<<"a">>), UrlLine(UrlSshGit), Header(<<"b">>), UrlLine(UrlHttps), CoreSection>>,
      <<Header(<<"a">>), CoreSection>>,
      <<CoreSection, Header(<<"a">>), UrlLine(UrlSshGit)>>,
      <<Header(<<"a">>)>>,
      <<Header(<<"A">>), UrlLine(UrlSshGit), CoreSection>>,
      <<Header(<<"a", "1">>), UrlLine(UrlSshGit), Header(<<"a">>), UrlLine(UrlHttps),
        Header(<<"a", "-", "b">>), UrlLine(UrlSshGit)>>,
      <<UrlLine(UrlSshGit), CoreSection, UrlLine(UrlHttps)>>,
      <<UrlLine(UrlHttps), Header(<<"a">>), UrlLine(UrlSshGit), CoreSection, UrlLine(UrlHttps)>>,
      <<UrlLine(UrlHttps), Header(<<"a">>), UrlLine(UrlSshGit), CoreSection, UrlLine(UrlHttps),
        Header(<<"b">>), UrlLine(UrlHttps), CoreSection>> }

GitConfigs ==
    {[exists |-> FALSE, data |-> <<>>]} \cup {[exists |-> TRUE, data |-> c] : c \in GitConfigData}

Tokens == {"t1", "t2"}

Environs ==
    {[HOME |-> "/root"]} \cup {[HOME |-> "/root", GITHUB_TOKEN |-> t] : t \in Tokens}

\* What `git config user.username` prints, stripped.
Usernames == {"", "u"}

\* File names of the dist directory: the wheel and the archive of version
\* 1, the archive of version 1-a2, and a wheel and an archive of version 1
\* under the other spelling of the package name.
DistFiles ==
    { <<"p", "_", "q", "-", "1", "-", "x", ".", "w", "h", "l">>,
      <<"P", ".", "q", "-", "1", ".", "t", "a", "r", ".", "g", "z">>,
      <<"P", ".", "q", "-", "1", "a", "2", ".", "t", "a", "r", ".", "g", "z">>,
      <<"P", ".", "q", "-", "1", "-", "x", ".", "w", "h", "l">>,
      <<"p", "_", "q", "-", "1", ".", "t", "a", "r", ".", "g", "z">> }

(***************************************************************************)
(* ReleaseCommand.handle                                                   *)
(***************************************************************************)
MsgMissingVersion == "Missing 'version' field in configuration."

MsgNotRepository == "Working directory is not a git repository."

MsgNoRemotes == "Found 0 git remotes."

MsgMultipleRemotes == "Found multiple git remotes, which is currently not supported."

MsgNoToken ==
    "In order to authenticate with GitHub, a PAT needs to be specified through a 'GITHUB_TOKEN' environment variable."

MsgCreated == "Release v{version} created and accessable through the following URL:"

MsgReleaseUrl == "  https://github.com/{repo_owner}/{repo_name}/releases/tag/v{version}"

MsgAttempting == "Attempting to attach {len(files)} asset(s) to the release."

MsgUploading == "  {i + 1}. Uploading '{basename}'..."

MsgFailed == " Failed."

MsgDone == " Done."

\* The dataclass defaults (lines 23-39).
GitRemoteDefault == [name |-> <<>>, url |-> <<>>, repo_name |-> <<>>, repo_owner |-> <<>>]

GitHubReleaseDefault == [uid |-> -1, url |-> "", url_upload |-> <<>>]

\* The locals of the other module's handle before it runs.
LegacyInit ==
    [pc |-> "not_running", raised |-> "", exit_code |-> <<>>,
     io |-> [lines |-> <<>>, pending |-> <<>>], requests |-> <<>>, responses |-> <<>>,
     remote |-> GitRemoteDefault, github_token |-> "", github_username |-> "",
     github_release |-> GitHubReleaseDefault, files |-> <<>>, idx |-> 0]

HandleLocalsInit ==
    /\ legacy = LegacyInit
    /\ raised = ""
    /\ exit_code = <<>>
    /\ io = [lines |-> <<>>, pending |-> <<>>]
    /\ requests = <<>>
    /\ responses = <<>>
    /\ short_version = <<>>
    /\ remote = GitRemoteDefault
    /\ github_token = ""
    /\ github_username = ""
    /\ github_release = GitHubReleaseDefault
    /\ files = <<>>
    /\ idx = 0

Init ==
    /\ local_config \in LocalConfigs
    /\ git_config \in GitConfigs
    /\ environ \in Environs
    /\ dist \in SUBSET DistFiles
    /\ pre_release \in BOOLEAN
    /\ pc = "check_version"
    /\ lines = <<>>
    /\ ps = ParserInit
    /\ HandleLocalsInit

\* `return code`, an uncaught exception, and falling through to the next step.
Return(code) == pc' = "returned" /\ exit_code' = <<code>> /\ UNCHANGED raised

Raise(exc) == pc' = "raised" /\ raised' = exc /\ UNCHANGED exit_code

Goto(step) == pc' = step /\ UNCHANGED <<exit_code, raised>>

\* Lines 243-257.
CheckVersion ==
    /\ pc = "check_version"
    /\ IF "version" \notin DOMAIN local_config
       THEN /\ io' = Line(io, Fragment(MsgMissingVersion, <<>>))
            /\ Return(1)
            /\ UNCHANGED short_version
       ELSE IF ShortVersionRaises(local_config.version)
       THEN /\ Raise("IndexError")
            /\ UNCHANGED <<io, short_version>>
       ELSE /\ short_version' = ShortVersion(local_config.version)
            /\ Goto("check_git_config")
            /\ UNCHANGED io
    /\ UNCHANGED <<legacy, envvars, netvars, parsevars>>
    /\ UNCHANGED <<remote, github_token, github_username, github_release, files, idx>>

\* CheckGitConfig with the token gate of lines 288-294 moved before it.
CheckGitConfigAfterToken ==
    /\ pc = "check_git_config"
    /\ IF "GITHUB_TOKEN" \notin DOMAIN environ
       THEN io' = Line(io, Fragment(MsgNoToken, <<>>)) /\ Return(4)
       ELSE IF ~git_config.exists
       THEN io' = Line(io, Fragment(MsgNotRepository, <<>>)) /\ Return(2)
       ELSE Goto("find_git_remotes") /\ UNCHANGED io
    /\ UNCHANGED <<legacy, envvars, netvars, parsevars, locvars>>

\* Lines 258-266.
CheckGitConfig ==
    /\ pc = "check_git_config"
    /\ IF ~git_config.exists
       THEN io' = Line(io, Fragment(MsgNotRepository, <<>>)) /\ Return(2)
       ELSE Goto("find_git_remotes") /\ UNCHANGED io
    /\ UNCHANGED <<legacy, envvars, netvars, parsevars, locvars>>

\* Lines 268-286.
FindRemotes ==
    /\ pc = "find_git_remotes"
    /\ lines' = git_config.data
    /\ ps' = FindGitRemotes(git_config.data)
    /\ IF ps'.pc = "IndexError"
       THEN Raise("IndexError") /\ UNCHANGED <<io, remote>>
       ELSE IF Len(ps'.remotes) = 0
       THEN /\ io' = Line(io, Fragment(MsgNoRemotes, <<>>))
            /\ Return(3)
            /\ UNCHANGED remote
       ELSE IF Len(ps'.remotes) > 1
       THEN /\ io' = Line(io, Fragment(MsgMultipleRemotes, <<>>))
            /\ Return(99)
            /\ UNCHANGED remote
       ELSE /\ remote' = ps'.remotes[1]
            /\ Goto("check_token")
            /\ UNCHANGED io
    /\ UNCHANGED <<legacy, envvars, netvars>>
    /\ UNCHANGED <<short_version, github_token, github_username, github_release, files, idx>>

\* CheckToken with the release-creation request sent before the token is
\* looked up (os.environ.get in place of the gate of lines 289-294).
CheckTokenAfterPost ==
    /\ pc = "check_token"
    /\ requests' = Append(requests,
                          CreateReleaseRequest(remote, <<"v">> \o local_config.version,
                                               "", "", pre_release))
    /\ IF "GITHUB_TOKEN" \notin DOMAIN environ
       THEN /\ io' = Line(io, Fragment(MsgNoToken, <<>>))
            /\ Return(4)
            /\ UNCHANGED <<github_token, github_username>>
       ELSE /\ github_token' = environ.GITHUB_TOKEN
            /\ github_username' \in Usernames
            /\ Goto("create_release")
            /\ UNCHANGED io
    /\ UNCHANGED <<legacy, envvars, responses, parsevars>>
    /\ UNCHANGED <<short_version, remote, github_release, files, idx>>

\* Lines 288-302.
CheckToken ==
    /\ pc = "check_token"
    /\ IF "GITHUB_TOKEN" \notin DOMAIN environ
       THEN /\ io' = Line(io, Fragment(MsgNoToken, <<>>))
            /\ Return(4)
            /\ UNCHANGED <<github_token, github_username>>
       ELSE /\ github_token' = environ.GITHUB_TOKEN
            /\ github_username' \in Usernames
            /\ Goto("create_release")
            /\ UNCHANGED io
    /\ UNCHANGED <<legacy, envvars, netvars, parsevars>>
    /\ UNCHANGED <<short_version, remote, github_release, files, idx>>

\* Lines 304-311 and 130-146: the release-creation request is sent.
PostCreateRelease ==
    /\ pc = "create_release"
    /\ requests' = Append(requests,
                          CreateReleaseRequest(remote, <<"v">> \o local_config.version,
                                               github_username, github_token, pre_release))
    /\ Goto("await_create_release")
    /\ UNCHANGED <<legacy, envvars, io, responses, parsevars, locvars>>

\* CreateReleaseDone printing the "Attempting to attach" line without the
\* test of line 325.
CreateReleaseDoneAlwaysAnnounces ==
    /\ pc = "await_create_release"
    /\ \E outcome \in CreateOutcomes :
        /\ responses' = Append(responses, outcome)
        /\ LET result == CreateReleaseResult(outcome)
           IN  IF result.kind = "raise"
               THEN Raise(result.exc) /\ UNCHANGED <<io, github_release, files>>
               ELSE IF result.kind = "str"
               THEN /\ io' = Line(io, result.value)
                    /\ Return(5)
                    /\ UNCHANGED <<github_release, files>>
               ELSE /\ github_release' = result.value
                    /\ files' = GetBuiltFiles(dist, local_config.name, short_version)
                    /\ io' = Line(Line(Line(io, Fragment(MsgCreated, <<local_config.version>>)),
                                       Fragment(MsgReleaseUrl,
                                                <<remote.repo_owner, remote.repo_name,
                                                  local_config.version>>)),
                                  Fragment(MsgAttempting, <<Len(files')>>))
                    /\ Goto("upload_loop")
    /\ UNCHANGED <<legacy, envvars, requests, parsevars>>
    /\ UNCHANGED <<short_version, remote, github_token, github_username, idx>>

\* Lines 136-162 from the end of the post on, and lines 312-326.
CreateReleaseDone ==
    /\ pc = "await_create_release"
    /\ \E outcome \in CreateOutcomes :
        /\ responses' = Append(responses, outcome)
        /\ LET result == CreateReleaseResult(outcome)
           IN  IF result.kind = "raise"
               THEN Raise(result.exc) /\ UNCHANGED <<io, github_release, files>>
               ELSE IF result.kind = "str"
               THEN /\ io' = Line(io, result.value)
                    /\ Return(5)
                    /\ UNCHANGED <<github_release, files>>
               ELSE /\ github_release' = result.value
                    /\ files' = GetBuiltFiles(dist, local_config.name, short_version)
                    /\ LET shown ==
                               Line(Line(io, Fragment(MsgCreated, <<local_config.version>>)),
                                    Fragment(MsgReleaseUrl,
                                             <<remote.repo_owner, remote.repo_name,
                                               local_config.version>>))
                       IN  io' = IF Len(files') > 0
                                 THEN Line(shown, Fragment(MsgAttempting, <<Len(files')>>))
                                 ELSE shown
                    /\ Goto("upload_loop")
    /\ UNCHANGED <<legacy, envvars, requests, parsevars>>
    /\ UNCHANGED <<short_version, remote, github_token, github_username, idx>>

\* UploadAsset with the existence check of lines 179-180 made after the
\* post: the asset that is not a file is posted and then reported.
UploadAssetPostsFirst ==
    /\ pc = "upload_loop"
    /\ idx < Len(files)
    /\ LET file     == files[idx + 1]
           announce == Write(io, Fragment(MsgUploading, <<idx + 1, Basename(file)>>))
       IN  /\ requests' = Append(requests,
                                 UploadAssetRequest(file, github_release,
                                                    github_username, github_token))
           /\ \E is_file \in BOOLEAN :
                  IF ~is_file
                  THEN /\ io' = Line(Line(announce, Fragment(MsgFailed, <<>>)),
                                     UploadAssetMissing.value)
                       /\ idx' = idx + 1
                       /\ Goto("upload_loop")
                  ELSE /\ io' = announce
                       /\ Goto("await_upload_asset")
                       /\ UNCHANGED idx
    /\ UNCHANGED <<legacy, envvars, responses, parsevars>>
    /\ UNCHANGED <<short_version, remote, github_token, github_username, github_release, files>>

\* Lines 328-334 and 178-210: the next asset is announced; it is reported
\* as failed when it is not an existing file (lines 336-340), and posted
\* otherwise.
UploadAsset ==
    /\ pc = "upload_loop"
    /\ idx < Len(files)
    /\ LET file     == files[idx + 1]
           announce == Write(io, Fragment(MsgUploading, <<idx + 1, Basename(file)>>))
       IN  \E is_file \in BOOLEAN :
               IF ~is_file
               THEN /\ io' = Line(Line(announce, Fragment(MsgFailed, <<>>)),
                                  UploadAssetMissing.value)
                    /\ idx' = idx + 1
                    /\ Goto("upload_loop")
                    /\ UNCHANGED requests
               ELSE /\ io' = announce
                    /\ requests' = Append(requests,
                                          UploadAssetRequest(file, github_release,
                                                             github_username, github_token))
                    /\ Goto("await_upload_asset")
                    /\ UNCHANGED idx
    /\ UNCHANGED <<legacy, envvars, responses, parsevars>>
    /\ UNCHANGED <<short_version, remote, github_token, github_username, github_release, files>>

\* Lines 212-219 and 336-342.
UploadAssetDone ==
    /\ pc = "await_upload_asset"
    /\ \E outcome \in UploadOutcomes :
        /\ responses' = Append(responses, outcome)
        /\ LET result == UploadAssetResult(outcome, files[idx + 1],
                                           github_username, github_token)
           IN  IF result.kind = "raise"
               THEN Raise(result.exc) /\ UNCHANGED <<io, idx>>
               ELSE IF result.kind = "str"
               THEN /\ io' = Line(Line(io, Fragment(MsgFailed, <<>>)), result.value)
                    /\ idx' = idx + 1
                    /\ Goto("upload_loop")
               ELSE /\ io' = Line(io, Fragment(MsgDone, <<>>))
                    /\ idx' = idx + 1
                    /\ Goto("upload_loop")
    /\ UNCHANGED <<legacy, envvars, requests, parsevars>>
    /\ UNCHANGED <<short_version, remote, github_token, github_username, github_release, files>>

\* Line 344.
ReturnSuccess ==
    /\ pc = "upload_loop"
    /\ idx = Len(files)
    /\ Return(0)
    /\ UNCHANGED <<legacy, envvars, io, netvars, parsevars, locvars>>

Next ==
    \/ CheckVersion
    \/ CheckGitConfig
    \/ FindRemotes
    \/ CheckToken
    \/ PostCreateRelease
    \/ CreateReleaseDone
    \/ UploadAsset
    \/ UploadAssetDone
    \/ ReturnSuccess

Spec == Init /\ [][Next]_vars


(***************************************************************************)
(* The module poetry_github_release_plugin: its ReleaseCommand.handle, run *)
(* after the run above has ended, in the same environment and against the  *)
(* same server.  __find_git_remotes and __get_built_files are the same in  *)
(* both modules.                                                           *)
(***************************************************************************)
\* Lines 111-120: the request posted, without "prerelease" and without
\* timeout.
LegacyCreateReleaseRequest(rem, version, username, token) ==
    [kind |-> "create_release",
     method |-> "POST",
     url |-> <<"https://api.github.com/repos", rem.repo_owner, rem.repo_name, "releases">>,
     auth |-> <<username, token>>,
     json |-> [tag_name |-> version, target_commitish |-> "main",
               generate_release_notes |-> TRUE]]

\* Lines 149-154: every asset is posted as multipart form data, without
\* timeout.
LegacyUploadAssetRequest(asset, release, username, token) ==
    [kind |-> "upload_asset",
     method |-> "POST",
     url |-> release.url_upload,
     auth |-> <<username, token>>,
     params |-> <<<<"name", Basename(asset)>>>>,
     files |-> <<[field |-> "file", filename |-> "file", data |-> asset,
                  type |-> "application/octet-stream"]>>]

\* response.request.headers of the post of lines 149-154.
LegacyRequestHeaders(username, token) ==
    [Content_Type |-> "multipart/form-data", Authorization |-> BasicAuth(username, token)]

\* Lines 156-160.
LegacyUploadAssetResult(outcome, username, token) ==
    IF outcome.status = 201 THEN [kind |-> "None"]
    ELSE IF ~outcome.body.json THEN [kind |-> "raise", exc |-> "JSONDecodeError"]
    ELSE [kind |-> "str",
          value |-> Fragment(MsgRequestFailed,
                             <<outcome.status, outcome.body,
                               LegacyRequestHeaders(username, token)>>)]

\* The answer to the n-th request: the answer the server gave to the n-th
\* request of the run above; where the server gave none within the timeout
\* of that run, or that run sent no n-th request, any answer (a post
\* without timeout waits until the answer comes).
LegacyOutcomes(n, outcomes) ==
    IF n <= Len(responses) /\ responses[n].kind = "response"
    THEN {responses[n]}
    ELSE outcomes \ {Timeout}

\* The lines of the run above that announce an asset and end the line.
AnnouncedAt == {n \in 1..Len(io.lines) : io.lines[n][1].msg = MsgUploading}

\* Whether the k-th asset is an existing file: what the run above found
\* when it came to that asset, and either when it did not come to it.
LegacyIsFile(k) ==
    IF k <= Cardinality(AnnouncedAt)
    THEN LET n == CHOOSE m \in AnnouncedAt : Cardinality({j \in AnnouncedAt : j <= m}) = k
         IN  {~(n < Len(io.lines) /\ io.lines[n + 1][1].msg = MsgNoAsset)}
    ELSE IF k = Cardinality(AnnouncedAt) + 1 /\ io.pending # <<>> THEN {TRUE}
    ELSE BOOLEAN

\* What `git config user.username` prints: what it printed in the run
\* above, when that run asked.
LegacyUsernames == IF github_token # "" THEN {github_username} ELSE Usernames

LegacyReturn(l, code) == [l EXCEPT !.pc = "returned", !.exit_code = <<code>>]

LegacyRaise(l, exc) == [l EXCEPT !.pc = "raised", !.raised = exc]

\* Lines 174-180.
LegacyCheckVersion ==
    /\ pc \in {"returned", "raised"}
    /\ legacy.pc = "not_running"
    /\ legacy' =
           IF "version" \notin DOMAIN local_config
           THEN LegacyReturn([legacy EXCEPT !.io = Line(@, Fragment(MsgMissingVersion, <<>>))], 1)
           ELSE [legacy EXCEPT !.pc = "check_git_config"]
    /\ UNCHANGED <<envvars, ctlvars, io, netvars, locvars, parsevars>>

\* Lines 181-189.
LegacyCheckGitConfig ==
    /\ legacy.pc = "check_git_config"
    /\ legacy' =
           IF ~git_config.exists
           THEN LegacyReturn([legacy EXCEPT !.io = Line(@, Fragment(MsgNotRepository, <<>>))], 2)
           ELSE [legacy EXCEPT !.pc = "find_git_remotes"]
    /\ UNCHANGED <<envvars, ctlvars, io, netvars, locvars, parsevars>>

\* Lines 191-209.
LegacyFindRemotes ==
    /\ legacy.pc = "find_git_remotes"
    /\ LET found == FindGitRemotes(git_config.data)
       IN  legacy' =
               IF found.pc = "IndexError" THEN LegacyRaise(legacy, "IndexError")
               ELSE IF Len(found.remotes) = 0
               THEN LegacyReturn([legacy EXCEPT !.io = Line(@, Fragment(MsgNoRemotes, <<>>))], 3)
               ELSE IF Len(found.remotes) > 1
               THEN LegacyReturn([legacy EXCEPT
                                      !.io = Line(@, Fragment(MsgMultipleRemotes, <<>>))], 99)
               ELSE [legacy EXCEPT !.remote = found.remotes[1], !.pc = "check_token"]
    /\ UNCHANGED <<envvars, ctlvars, io, netvars, locvars, parsevars>>

\* Lines 211-223.
LegacyCheckToken ==
    /\ legacy.pc = "check_token"
    /\ IF "GITHUB_TOKEN" \notin DOMAIN environ
       THEN legacy' = LegacyReturn([legacy EXCEPT !.io = Line(@, Fragment(MsgNoToken, <<>>))], 4)
       ELSE \E username \in LegacyUsernames :
                legacy' = [legacy EXCEPT !.github_token = environ.GITHUB_TOKEN,
                                         !.github_username = username,
                                         !.pc = "create_release"]
    /\ UNCHANGED <<envvars, ctlvars, io, netvars, locvars, parsevars>>

\* Lines 225-228 and 111-120: the release-creation request is sent.
LegacyPostCreateRelease ==
    /\ legacy.pc = "create_release"
    /\ legacy' =
           [legacy EXCEPT
                !.requests = Append(@, LegacyCreateReleaseRequest(
                                           legacy.remote, <<"v">> \o local_config.version,
                                           legacy.github_username, legacy.github_token)),
                !.pc = "await_create_release"]
    /\ UNCHANGED <<envvars, ctlvars, io, netvars, locvars, parsevars>>

\* Lines 122-136 and 229-241.
LegacyCreateReleaseDone ==
    /\ legacy.pc = "await_create_release"
    /\ \E outcome \in LegacyOutcomes(Len(legacy.requests), CreateOutcomes) :
           LET result == CreateReleaseResult(outcome)
               got    == [legacy EXCEPT !.responses = Append(@, outcome)]
           IN  legacy' =
                   IF result.kind = "raise" THEN LegacyRaise(got, result.exc)
                   ELSE IF result.kind = "str"
                   THEN LegacyReturn([got EXCEPT !.io = Line(@, result.value)], 5)
                   ELSE LET built == GetBuiltFiles(dist, local_config.name, local_config.version)
                            shown ==
                                Line(Line(got.io, Fragment(MsgCreated, <<local_config.version>>)),
                                     Fragment(MsgReleaseUrl,
                                              <<got.remote.repo_owner, got.remote.repo_name,
                                                local_config.version>>))
                        IN  [got EXCEPT
                                 !.github_release = result.value,
                                 !.files = built,
                                 !.io = IF Len(built) > 0
                                        THEN Line(shown, Fragment(MsgAttempting, <<Len(built)>>))
                                        ELSE shown,
                                 !.pc = "upload_loop"]
    /\ UNCHANGED <<envvars, ctlvars, io, netvars, locvars, parsevars>>

\* Lines 243-249 and 142-154.
LegacyUploadAsset ==
    /\ legacy.pc = "upload_loop"
    /\ legacy.idx < Len(legacy.files)
    /\ LET file     == legacy.files[legacy.idx + 1]
           announce == Write(legacy.io,
                             Fragment(MsgUploading, <<legacy.idx + 1, Basename(file)>>))
       IN  \E is_file \in LegacyIsFile(legacy.idx + 1) :
               legacy' =
                   IF ~is_file
                   THEN [legacy EXCEPT
                             !.io = Line(Line(announce, Fragment(MsgFailed, <<>>)),
                                         UploadAssetMissing.value),
                             !.idx = @ + 1]
                   ELSE [legacy EXCEPT
                             !.io = announce,
                             !.requests = Append(@, LegacyUploadAssetRequest(
                                                        file, legacy.github_release,
                                                        legacy.github_username,
                                                        legacy.github_token)),
                             !.pc = "await_upload_asset"]
    /\ UNCHANGED <<envvars, ctlvars, io, netvars, locvars, parsevars>>

\* Lines 156-160 and 251-257.
LegacyUploadAssetDone ==
    /\ legacy.pc = "await_upload_asset"
    /\ \E outcome \in LegacyOutcomes(Len(legacy.requests), UploadOutcomes) :
           LET result == LegacyUploadAssetResult(outcome, legacy.github_username,
                                                 legacy.github_token)
               got    == [legacy EXCEPT !.responses = Append(@, outcome)]
           IN  legacy' =
                   IF result.kind = "raise" THEN LegacyRaise(got, result.exc)
                   ELSE IF result.kind = "str"
                   THEN [got EXCEPT !.io = Line(Line(@, Fragment(MsgFailed, <<>>)), result.value),
                                    !.idx = @ + 1,
                                    !.pc = "upload_loop"]
                   ELSE [got EXCEPT !.io = Line(@, Fragment(MsgDone, <<>>)),
                                    !.idx = @ + 1,
                                    !.pc = "upload_loop"]
    /\ UNCHANGED <<envvars, ctlvars, io, netvars, locvars, parsevars>>

\* Line 259.
LegacyReturnSuccess ==
    /\ legacy.pc = "upload_loop"
    /\ legacy.idx = Len(legacy.files)
    /\ legacy' = LegacyReturn(legacy, 0)
    /\ UNCHANGED <<envvars, ctlvars, io, netvars, locvars, parsevars>>

\* Both modules on a version without hyphen and without --pre-release.
VersionOne == <<"1">>

InitLegacy ==
    /\ local_config \in {[name |-> PackageName], [name |-> PackageName, version |-> VersionOne]}
    /\ git_config \in GitConfigs
    /\ environ \in {[HOME |-> "/root"], [HOME |-> "/root", GITHUB_TOKEN |-> "t1"]}
    /\ dist \in SUBSET DistFiles
    /\ pre_release = FALSE
    /\ pc = "check_version"
    /\ lines = <<>>
    /\ ps = ParserInit
    /\ HandleLocalsInit

NextLegacy ==
    \/ Next
    \/ LegacyCheckVersion
    \/ LegacyCheckGitConfig
    \/ LegacyFindRemotes
    \/ LegacyCheckToken
    \/ LegacyPostCreateRelease
    \/ LegacyCreateReleaseDone
    \/ LegacyUploadAsset
    \/ LegacyUploadAssetDone
    \/ LegacyReturnSuccess

SpecLegacy == InitLegacy /\ [][NextLegacy]_vars

(***************************************************************************)
(* The run on every version string of at most MaxVersionLen characters,    *)
(* in a repository with one remote, a token and a full dist directory.     *)
(***************************************************************************)
MaxVersionLen == 4

VersionChars == {"1", "2", "a", "-"}

VersionPlain == <<"1", ".", "2", ".", "0">>

VersionAlpha == <<"1", ".", "2", ".", "0", "-", "a", "l", "p", "h", "a", ".", "3">>

AllVersions ==
    (SeqsUpTo(VersionChars, MaxVersionLen) \ {<<>>}) \cup {VersionPlain, VersionAlpha}

InitVersion ==
    /\ local_config \in {[name |-> PackageName, version |-> v] : v \in AllVersions}
    /\ git_config = [exists |-> TRUE,
                     data |-> <<Header(<<"a">>), UrlLine(UrlSshGit), CoreSection>>]
    /\ environ = [HOME |-> "/root", GITHUB_TOKEN |-> "t1"]
    /\ dist = DistFiles
    /\ pre_release \in BOOLEAN
    /\ pc = "check_version"
    /\ lines = <<>>
    /\ ps = ParserInit
    /\ HandleLocalsInit

SpecVersion == InitVersion /\ [][Next]_vars

(***************************************************************************)
(* The parser run step by step on every configuration text.                *)
(***************************************************************************)
InitParse ==
    /\ lines \in Configs
    /\ ps = ParserInit
    /\ local_config = [name |-> PackageName]
    /\ git_config = [exists |-> FALSE, data |-> <<>>]
    /\ environ = [HOME |-> "/root"]
    /\ dist = {}
    /\ pre_release = FALSE
    /\ pc = "not_running"
    /\ HandleLocalsInit

ParseOuter ==
    /\ ps.pc = "outer"
    /\ ps' = OuterStep(lines, ps)
    /\ UNCHANGED <<legacy, lines, envvars, ctlvars, io, netvars, locvars>>

ParseInner ==
    /\ ps.pc = "inner"
    /\ ps' = InnerStep(lines, ps)
    /\ UNCHANGED <<legacy, lines, envvars, ctlvars, io, netvars, locvars>>

NextParse == ParseOuter \/ ParseInner

SpecParse == InitParse /\ [][NextParse]_vars

(***************************************************************************)
(* What a configuration text says, read off the text itself: its remote    *)
(* sections, where each ends, and the url lines each holds.                *)
(***************************************************************************)
IsRemoteHeader(line) ==
    /\ Len(line) >= Len(HeaderPrefix) + Len(HeaderSuffix)
    /\ LET name == SubSeq(line, Len(HeaderPrefix) + 1, Len(line) - Len(HeaderSuffix))
       IN  line = Header(name) /\ \A k \in 1..Len(name) : name[k] \in Lower

HeaderName(line) == SubSeq(line, Len(HeaderPrefix) + 1, Len(line) - Len(HeaderSuffix))

RemoteSections(ls) == {k \in 1..Len(ls) : IsRemoteHeader(ls[k])}

\* The section that starts at line k runs up to the line before SectionEnd.
SectionEnd(ls, k) ==
    LET heads == {j \in (k + 1)..Len(ls) : ls[j] # <<>> /\ ls[j][1] = "["}
    IN  IF heads = {} THEN Len(ls) + 1 ELSE CHOOSE j \in heads : \A e \in heads : j <= e

UrlLinesOf(ls, k) == {j \in (k + 1)..(SectionEnd(ls, k) - 1) : IsUrlLine(ls[j])}

LastUrlLine(ls, k) == CHOOSE j \in UrlLinesOf(ls, k) : \A e \in UrlLinesOf(ls, k) : e <= j

\* The remote sections that hold a url, in the order of the text.
RECURSIVE Ascending(_)
Ascending(S) ==
    IF S = {} THEN <<>>
    ELSE LET m == CHOOSE x \in S : \A y \in S : x <= y IN <<m>> \o Ascending(S \ {m})

SectionsWithUrl(ls) == Ascending({k \in RemoteSections(ls) : UrlLinesOf(ls, k) # {}})

Terminated == pc \in {"returned", "raised"}

(***************************************************************************)
(* Claims about __find_git_remotes (checked under SpecParse).              *)
(***************************************************************************)
\* C7: for a text whose remote sections each hold exactly one url line, in
\* any position relative to the other sections, the call returns one
\* descriptor per remote section, in the order of the text, each with its
\* section's name and url.
C7_OneDescriptorPerSection ==
    (/\ ParserDone(ps)
     /\ \A k \in RemoteSections(lines) : Cardinality(UrlLinesOf(lines, k)) = 1)
        => /\ ps.pc = "returned"
           /\ Len(ps.remotes) = Cardinality(RemoteSections(lines))
           /\ \A j \in 1..Len(ps.remotes) :
                  LET k == SectionsWithUrl(lines)[j]
                  IN  /\ ps.remotes[j].name = HeaderName(lines[k])
                      /\ ps.remotes[j].url = UrlValue(lines[LastUrlLine(lines, k)])

\* C8: the call ends normally on every sequence of lines: it never raises
\* by reading lines[i] past the last line.
C8_ParserEndsNormally == ps.pc # "IndexError"

\* C9: the descriptors built so far are those of the first remote sections
\* that hold a url, and the url of each is the value of the LAST url line of
\* its own section: no earlier line of the section and no line of a later
\* section decides it.
C9_LastUrlLineWins ==
    /\ Len(ps.remotes) <= Len(SectionsWithUrl(lines))
    /\ \A j \in 1..Len(ps.remotes) :
           LET k == SectionsWithUrl(lines)[j]
           IN  /\ ps.remotes[j].name = HeaderName(lines[k])
               /\ ps.remotes[j].url = UrlValue(lines[LastUrlLine(lines, k)])

\* A descriptor whose section holds two url lines of different values, the
\* first of which is also the url line of a later remote section.
C9_Witness ==
    /\ Len(ps.remotes) >= 1
    /\ LET k == SectionsWithUrl(lines)[1]
       IN  /\ Cardinality(UrlLinesOf(lines, k)) = 2
           /\ \E j \in UrlLinesOf(lines, k) : UrlValue(lines[j]) # ps.remotes[1].url
           /\ \E m \in RemoteSections(lines) :
                  /\ m > k
                  /\ \E j \in UrlLinesOf(lines, m) : UrlValue(lines[j]) # ps.remotes[1].url

\* C10: a descriptor whose url is the SSH form or the HTTPS form of a host,
\* an owner and a repository, with or without ".git", has that owner as
\* repo_owner and that repository as repo_name.
C10_SameOwnerAndName ==
    \A j \in 1..Len(ps.remotes) :
        \A h \in Hosts, o \in Owners, r \in Repos, g \in BOOLEAN :
            ps.remotes[j].url \in {SshUrl(h, o, r, g), HttpsUrl(h, o, r, g)}
                => ps.remotes[j].repo_owner = o /\ ps.remotes[j].repo_name = r

\* Two descriptors of one call, one from the SSH form with ".git" and one
\* from the HTTPS form without it, with the same owner and name.
C10_Witness ==
    /\ ps.pc = "returned"
    /\ Len(ps.remotes) = 2
    /\ ps.remotes[1].url = SshUrl(<<"h">>, <<"o">>, <<"r">>, TRUE)
    /\ ps.remotes[2].url = HttpsUrl(<<"h">>, <<"o">>, <<"r">>, FALSE)
    /\ ps.remotes[1].repo_owner = ps.remotes[2].repo_owner
    /\ ps.remotes[1].repo_name = ps.remotes[2].repo_name

(***************************************************************************)
(* Claims about handle (checked under Spec).                               *)
(***************************************************************************)
\* The exit code of the first gate that fails, the gates taken in the order
\* version, .git/config, zero remotes, several remotes, token, release
\* creation; 0 when none fails.  The remotes are counted on the text.
GateCode ==
    IF "version" \notin DOMAIN local_config THEN 1
    ELSE IF ~git_config.exists THEN 2
    ELSE IF Len(SectionsWithUrl(git_config.data)) = 0 THEN 3
    ELSE IF Len(SectionsWithUrl(git_config.data)) > 1 THEN 99
    ELSE IF "GITHUB_TOKEN" \notin DOMAIN environ THEN 4
    ELSE IF Len(responses) >= 1 /\ responses[1].kind = "response" /\ responses[1].status # 201
    THEN 5
    ELSE 0

\* C1: the code handle returns is the code of the first failing gate, for
\* every combination of failing preconditions, and is one of 0, 1, 2, 3, 4,
\* 5, 99.
C1_FirstFailingGateDecides ==
    pc = "returned"
        => /\ exit_code = <<GateCode>>
           /\ exit_code[1] \in {0, 1, 2, 3, 4, 5, 99}

\* A run that returned 2 although the token is missing too.
C1_Witness ==
    /\ pc = "returned"
    /\ exit_code = <<2>>
    /\ "version" \in DOMAIN local_config
    /\ "GITHUB_TOKEN" \notin DOMAIN environ

\* C2: a run that ended with exit code 1, 2, 3, 99 or 4 has sent no request
\* (requests records every request of the run, in order).
C2_NoRequestOnPreconditionExit ==
    (pc = "returned" /\ exit_code[1] \in {1, 2, 3, 99, 4}) => requests = <<>>

\* A run stopped by the last of these gates, the missing token.
C2_Witness == pc = "returned" /\ exit_code = <<4>> /\ requests = <<>>

\* C3: whatever the body of a release-creation response whose status is not
\* 201, the run prints an error detail with the status, ends with exit code
\* 5, looks up no artifact and sends no upload request.
C3_FailedCreationExitsFive ==
    (/\ Terminated
     /\ Len(responses) >= 1
     /\ responses[1].kind = "response"
     /\ responses[1].status # 201)
        => /\ pc = "returned"
           /\ exit_code = <<5>>
           /\ LET last == io.lines[Len(io.lines)]
              IN  /\ last[1].msg = MsgRequestFailed
                  /\ last[1].args[1] = responses[1].status
           /\ Len(requests) = 1
           /\ files = <<>>

\* The progress lines: those that start with an "Uploading" fragment.
ProgressLines == SelectSeq(io.lines, LAMBDA l : l[1].msg = MsgUploading)

\* C4: once the release is created, whatever the artifacts located and
\* whatever each upload meets (a missing file, a status other than 201, or
\* 201), the run ends with exit code 0 after one attempt per artifact, in
\* sorted order, each with one progress line ending in Done. or Failed.
C4_EveryArtifactAttempted ==
    (/\ Terminated
     /\ Len(responses) >= 1
     /\ \A k \in 1..Len(responses) : responses[k].kind = "response"
     /\ responses[1].status = 201
     /\ responses[1].body.json)
        => /\ pc = "returned"
           /\ exit_code = <<0>>
           /\ Len(ProgressLines) = Len(files)
           /\ \A k \in 1..Len(files) :
                  /\ ProgressLines[k][1].args = <<k, Basename(files[k])>>
                  /\ Len(ProgressLines[k]) = 2
                  /\ ProgressLines[k][2].msg \in {MsgDone, MsgFailed}
           /\ \A k \in 1..(Len(files) - 1) : StrLess(files[k], files[k + 1])

\* C5: a timeout counts as a failed request: of the release creation, the
\* run ends with exit code 5; of an upload, the run goes on and ends with
\* exit code 0.
C5_TimeoutIsRequestFailure ==
    (/\ Terminated
     /\ \E k \in 1..Len(responses) : responses[k].kind = "timeout"
     /\ \A k \in 1..Len(responses) : responses[k].kind = "response" => responses[k].body.json)
        => /\ pc = "returned"
           /\ exit_code = IF responses[1].kind = "timeout" THEN <<5>> ELSE <<0>>

\* C6: no printed line holds the token or a value derived from it.
HoldsToken(f) ==
    /\ f.msg = MsgRequestFailed
    /\ Len(f.args) = 3
    /\ f.args[3].Authorization.credentials[2] = github_token

C6_TokenNeverPrinted ==
    \A n \in 1..Len(io.lines) : \A m \in 1..Len(io.lines[n]) : ~HoldsToken(io.lines[n][m])

(***************************************************************************)
(* Version normalization, read off the version string itself.              *)
(***************************************************************************)
FirstIndexOf(str, c) ==
    CHOOSE k \in 1..Len(str) : str[k] = c /\ \A j \in 1..(k - 1) : str[j] # c

\* What stands between the first hyphen and the next one (or the end).
SegmentAfterFirstHyphen(version) ==
    LET rest == SubSeq(version, FirstIndexOf(version, "-") + 1, Len(version))
    IN  IF Contains(rest, "-") THEN SubSeq(rest, 1, FirstIndexOf(rest, "-") - 1) ELSE rest

ExpectedShortVersion(version) ==
    IF ~Contains(version, "-") THEN version
    ELSE SubSeq(version, 1, FirstIndexOf(version, "-") - 1)
             \o <<SegmentAfterFirstHyphen(version)[1]>>
             \o SelectSeq(SegmentAfterFirstHyphen(version), LAMBDA c : c \in Digits)

HasShortVersion(version) ==
    Contains(version, "-") => SegmentAfterFirstHyphen(version) # <<>>

ReleaseCreated == github_release # GitHubReleaseDefault

\* C11: the tag of the release-creation request is "v" followed by the full
\* version; the short version is the full version when that has no hyphen,
\* and otherwise the part before the first hyphen, the first character of
\* the segment after it and that segment's digits in order ("1.2.0-alpha.3"
\* gives "1.2.0a3"); the artifacts are located with the short version.
C11_TagAndShortVersion ==
    /\ \A k \in 1..Len(requests) :
           requests[k].kind = "create_release"
               => requests[k].json.tag_name = <<"v">> \o local_config.version
    /\ ("version" \in DOMAIN local_config /\ pc # "check_version")
           => /\ HasShortVersion(local_config.version)
                     => short_version = ExpectedShortVersion(local_config.version)
              /\ local_config.version = VersionAlpha
                     => short_version = <<"1", ".", "2", ".", "0", "a", "3">>
              /\ local_config.version = VersionPlain => short_version = VersionPlain
    /\ ReleaseCreated
           => files = GetBuiltFiles(dist, local_config.name,
                                    ExpectedShortVersion(local_config.version))

C11_Witness ==
    /\ pc = "returned"
    /\ exit_code = <<0>>
    /\ local_config.version = <<"1", "-", "a", "2">>
    /\ short_version = <<"1", "a", "2">>
    /\ requests[1].json.tag_name = <<"v", "1", "-", "a", "2">>
    /\ Len(files) = 1
    /\ Basename(files[1]) = PackageName \o <<"-", "1", "a", "2">> \o DotTarGz

\* C12: computing the short version never raises: a run whose configuration
\* has a version gets past the version step to the git gate, whatever the
\* version string.
C12_ShortVersionNeverRaises ==
    ("version" \in DOMAIN local_config /\ pc # "check_version")
        => ~(pc = "raised" /\ ps = ParserInit)

(***************************************************************************)
(* The asset uploads of a run.                                             *)
(***************************************************************************)
\* The upload URL template of the creation response up to its first "{".
UploadBase ==
    LET template == responses[1].body.upload_url
    IN  SubSeq(template, 1, FirstIndexOf(template, "{") - 1)

DotGz == <<".", "g", "z">>

MultipartField(path) ==
    [field |-> "file", filename |-> "file", data |-> path, type |-> "application/octet-stream"]

\* C13: every asset-upload request is sent in one of two ways: for a file
\* ending in ".gz", the file as raw body with the header Content-Type:
\* application/gzip and no multipart field; for any other file, one
\* multipart field "file" of type application/octet-stream, no raw body
\* and no header; in both, the one query parameter is name = the file's
\* base name, and the target is the release's upload base URL.
C13_UploadEncoding ==
    \A k \in 1..Len(requests) :
        requests[k].kind = "upload_asset"
            => LET r    == requests[k]
                   name == r.params[1][2]
                   path == DistDir \o <<"/">> \o name
               IN  /\ Len(r.params) = 1
                   /\ r.params[1][1] = "name"
                   /\ name \in dist
                   /\ \E j \in 1..Len(files) : files[j] = path
                   /\ r.url = UploadBase
                   /\ IF EndsWith(name, DotGz)
                      THEN /\ r.data = <<path>>
                           /\ r.headers = <<[Content_Type |-> "application/gzip"]>>
                           /\ r.files = <<>>
                      ELSE /\ r.files = <<MultipartField(path)>>
                           /\ r.data = <<>>
                           /\ r.headers = <<>>

C13_Witness ==
    /\ pc = "returned"
    /\ exit_code = <<0>>
    /\ Len(requests) = 3
    /\ requests[2].data # <<>>
    /\ EndsWith(requests[2].params[1][2], DotTarGz)
    /\ requests[3].files # <<>>
    /\ EndsWith(requests[3].params[1][2], DotWhl)

(***************************************************************************)
(* More claims about __find_git_remotes.                                   *)
(***************************************************************************)
\* C14: no descriptor has a repo_name that ends with ".git", also for a url
\* whose last path segment ends with ".git" more than once.
C14_RepoNameNeverEndsWithDotGit ==
    \A j \in 1..Len(ps.remotes) : ~EndsWith(ps.remotes[j].repo_name, DotGit)

\* A section header that is not the header of a remote.
IsOtherHeader(line) == StartsWith(line, <<"[">>) /\ ~IsRemoteHeader(line)

\* The text holds a remote section without url line, or a header that is
\* not the header of a remote.
HasSkippedSection(ls) ==
    \/ \E k \in RemoteSections(ls) : UrlLinesOf(ls, k) = {}
    \/ \E k \in 1..Len(ls) : IsOtherHeader(ls[k])

ParserRan == ps # ParserInit

\* C15: on a text with a remote section without url line or with a header
\* that is not the header of a remote, the parser ends without error and
\* returns the descriptors of exactly the remote sections that hold a url,
\* in order; when there is none, the run exits with code 3.
C15_SkippedSectionsAreNoError ==
    (ParserRan /\ ParserDone(ps) /\ HasSkippedSection(lines))
        => /\ ps.pc = "returned"
           /\ Len(ps.remotes) = Len(SectionsWithUrl(lines))
           /\ \A j \in 1..Len(ps.remotes) :
                  ps.remotes[j].name = HeaderName(lines[SectionsWithUrl(lines)[j]])
           /\ (SectionsWithUrl(lines) = <<>> /\ pc # "not_running")
                  => pc = "returned" /\ exit_code = <<3>>

(***************************************************************************)
(* More claims about the uploads.                                          *)
(***************************************************************************)
NoAssetLines == SelectSeq(io.lines, LAMBDA l : l[1].msg = MsgNoAsset)

\* C16: a step that reports an asset as not being an existing file sends
\* no request; it prints " Failed." after the asset's announcement, then
\* the error text, and the loop goes on with the next asset.
C16_MissingAssetSendsNothing ==
    [][Len(NoAssetLines') > Len(NoAssetLines)
          => /\ requests' = requests
             /\ Len(io'.lines) = Len(io.lines) + 2
             /\ io'.lines[Len(io.lines) + 1] =
                    <<Fragment(MsgUploading, <<idx + 1, Basename(files[idx + 1])>>),
                      Fragment(MsgFailed, <<>>)>>
             /\ io'.lines[Len(io.lines) + 2] = <<Fragment(MsgNoAsset, <<>>)>>
             /\ io'.pending = <<>>
             /\ pc' = "upload_loop"
             /\ idx' = idx + 1]_vars

\* A run of two assets, the first of which was not a file: the second was
\* posted and the run returned 0.
C16_Witness ==
    /\ pc = "returned"
    /\ exit_code = <<0>>
    /\ Len(files) = 2
    /\ Len(io.lines) = 6
    /\ io.lines[4][2].msg = MsgFailed
    /\ io.lines[5][1].msg = MsgNoAsset
    /\ io.lines[6][2].msg = MsgDone
    /\ Len(requests) = 2
    /\ requests[2].params[1][2] = Basename(files[2])

\* C17: a run sends at most one release-creation request, and sends it
\* before any upload request; every upload request goes to the upload URL
\* template of that request's 201 response cut at its first "{"; every
\* request is a POST that creates the release or uploads an asset, none
\* deletes or changes the release.
C17_OneCreationThenUploads ==
    /\ Cardinality({k \in 1..Len(requests) : requests[k].kind = "create_release"}) <= 1
    /\ \A k \in 1..Len(requests) :
           /\ requests[k].method = "POST"
           /\ requests[k].kind = "create_release" => k = 1
           /\ requests[k].kind # "create_release"
                  => /\ requests[k].kind = "upload_asset"
                     /\ requests[1].kind = "create_release"
                     /\ responses[1].kind = "response"
                     /\ responses[1].status = 201
                     /\ requests[k].url = UploadBase

\* A finished run with two uploads, the first of which was refused.
C17_Witness ==
    /\ pc = "returned"
    /\ Len(requests) = 3
    /\ Len(responses) = 3
    /\ responses[2].kind = "response"
    /\ responses[2].status = 500
    /\ requests[3].kind = "upload_asset"

(***************************************************************************)
(* The build artifacts of a run, read off the names of the dist directory. *)
(***************************************************************************)
\* name matches {escaped}-{version}-*.whl: it is that prefix, any
\* characters, and ".whl".
MatchesWheelPattern(name, escaped, version) ==
    \E i \in 1..(Len(name) + 1) : \E j \in 0..Len(name) :
        name = escaped \o <<"-">> \o version \o <<"-">> \o SubSeq(name, i, j) \o DotWhl

IsArtifact(name) ==
    \/ MatchesWheelPattern(name, EscapeName(local_config.name), short_version)
    \/ name = local_config.name \o <<"-">> \o short_version \o DotTarGz

Artifacts == {name \in dist : IsArtifact(name)}

\* C18: when the release was created and no file of the dist directory is
\* an artifact of the version, the output is the two release URL lines and
\* nothing else, the creation request is the only request, and the run
\* does not fail: it returns 0.
C18_NoArtifactsExitsZero ==
    (ReleaseCreated /\ Artifacts = {})
        => /\ io.lines =
                  << <<Fragment(MsgCreated, <<local_config.version>>)>>,
                     <<Fragment(MsgReleaseUrl,
                                <<remote.repo_owner, remote.repo_name, local_config.version>>)>> >>
           /\ io.pending = <<>>
           /\ Len(requests) = 1
           /\ pc \in {"upload_loop", "returned"}
           /\ pc = "returned" => exit_code = <<0>>

\* A run that returned 0 after creating the release, with files in the
\* dist directory none of which is an artifact of the version.
C18_Witness ==
    /\ pc = "returned"
    /\ exit_code = <<0>>
    /\ ReleaseCreated
    /\ dist # {}
    /\ Artifacts = {}
    /\ Len(io.lines) = 2

\* C19: the files located are exactly the files of the dist directory
\* named {escaped package name}-{short version}-*.whl or
\* {package name}-{short version}.tar.gz, each once and in ascending
\* order; the assets are announced and posted in that order.
C19_ArtifactsExactAndSorted ==
    ReleaseCreated
        => /\ {files[k] : k \in 1..Len(files)} = {DistDir \o <<"/">> \o name : name \in Artifacts}
           /\ \A k \in 1..(Len(files) - 1) : StrLess(files[k], files[k + 1])
           /\ \A k \in 1..Len(ProgressLines) :
                  ProgressLines[k][1].args = <<k, Basename(files[k])>>
           /\ \A j, k \in 2..Len(requests) :
                  j < k => StrLess(requests[j].params[1][2], requests[k].params[1][2])

\* A run that posted the archive and then the wheel of version 1, from a
\* dist directory that also holds the archive of another version and a
\* wheel and an archive under the other spelling of the package name.
C19_Witness ==
    /\ pc = "returned"
    /\ dist = DistFiles
    /\ Len(files) = 2
    /\ Basename(files[1]) = <<"P", ".", "q", "-", "1", ".", "t", "a", "r", ".", "g", "z">>
    /\ Basename(files[2]) = <<"p", "_", "q", "-", "1", "-", "x", ".", "w", "h", "l">>
    /\ Len(requests) = 3
    /\ requests[2].params[1][2] = Basename(files[1])
    /\ requests[3].params[1][2] = Basename(files[2])

(***************************************************************************)
(* The --pre-release option.                                               *)
(***************************************************************************)
\* C20: the body of the release-creation request is exactly tag_name =
\* "v" + version, target_commitish = "main", generate_release_notes = true
\* and prerelease = the --pre-release option.  Nothing else of the run
\* depends on the option: the exit code is the code of the first failing
\* gate, the files located are the artifacts of the dist directory, and an
\* upload request has the fields of C13 only, none of which is read from
\* the option.
C20_PreReleaseOnlyInBody ==
    /\ \A k \in 1..Len(requests) :
           IF requests[k].kind = "create_release"
           THEN requests[k].json =
                    [tag_name |-> <<"v">> \o local_config.version,
                     target_commitish |-> "main",
                     generate_release_notes |-> TRUE,
                     prerelease |-> pre_release]
           ELSE DOMAIN requests[k] =
                    {"kind", "method", "url", "auth", "params", "files", "data", "headers",
                     "timeout"}
    /\ pc = "returned" => exit_code = <<GateCode>>
    /\ ReleaseCreated
           => {files[k] : k \in 1..Len(files)} = {DistDir \o <<"/">> \o name : name \in Artifacts}

\* A run with the option given that created the release, marked as a
\* pre-release, and uploaded an artifact.
C20_Witness ==
    /\ pc = "returned"
    /\ exit_code = <<0>>
    /\ pre_release
    /\ requests[1].json.prerelease
    /\ Len(requests) >= 2
    /\ Len(io.lines[Len(io.lines)]) = 2
    /\ io.lines[Len(io.lines)][2].msg = MsgDone

(***************************************************************************)
(* Url lines outside the remote sections.                                  *)
(***************************************************************************)
InRemoteSection(ls, j) == \E k \in RemoteSections(ls) : k < j /\ j < SectionEnd(ls, k)

\* The url lines before the first header or in a section that is not the
\* section of a remote.
OutsideUrlLines(ls) == {j \in 1..Len(ls) : IsUrlLine(ls[j]) /\ ~InRemoteSection(ls, j)}

\* The text without the lines of the indexes S.
WithoutLines(ls, S) ==
    LET kept == Ascending((1..Len(ls)) \ S)
    IN  [n \in 1..Len(kept) |-> ls[kept[n]]]

\* C21: the url lines outside the remote sections decide nothing: the
\* parser ends the same way and with the same descriptors as on the text
\* without these lines, and the run takes the exit 3, the exit 99 or the
\* one remote according to the number of remotes of that text.
C21_OutsideUrlLinesDecideNothing ==
    ParserDone(ps)
        => LET other == FindGitRemotes(WithoutLines(lines, OutsideUrlLines(lines)))
           IN  /\ other.pc = ps.pc
               /\ other.remotes = ps.remotes
               /\ (pc # "not_running" /\ other.pc = "returned")
                      => IF Len(other.remotes) = 0 THEN pc = "returned" /\ exit_code = <<3>>
                         ELSE IF Len(other.remotes) > 1
                         THEN pc = "returned" /\ exit_code = <<99>>
                         ELSE /\ remote = other.remotes[1]
                              /\ pc = "returned" => exit_code[1] \notin {3, 99}

\* A run that went on to the release with the one remote of a text that
\* holds a url line before the first header and one in the [core] section.
C21_Witness ==
    /\ pc = "returned"
    /\ exit_code = <<0>>
    /\ Len(ps.remotes) = 1
    /\ remote.url = UrlSshGit
    /\ \E j \in OutsideUrlLines(lines) : \A k \in RemoteSections(lines) : j < k
    /\ \E j \in OutsideUrlLines(lines) : j > 1 /\ lines[j - 1] = CoreSection
    /\ \A j \in OutsideUrlLines(lines) : UrlValue(lines[j]) # remote.url

(***************************************************************************)
(* The two modules compared.                                               *)
(***************************************************************************)
LegacyTerminated == legacy.pc \in {"returned", "raised"}

\* The targets of the requests of a run, in order.
Targets(reqs) == [k \in 1..Len(reqs) |-> <<reqs[k].kind, reqs[k].url>>]

\* C22: on a version without hyphen and without --pre-release, in the
\* same environment and against the same server, both modules end the
\* same way (same exit code), print the same lines and send their requests
\* to the same targets in the same order.
C22_LegacyAgrees ==
    (/\ pc \in {"returned", "raised"}
     /\ LegacyTerminated
     /\ ~pre_release
     /\ "version" \in DOMAIN local_config => ~Contains(local_config.version, "-"))
        => /\ legacy.pc = pc
           /\ legacy.exit_code = exit_code
           /\ legacy.raised = raised
           /\ Targets(legacy.requests) = Targets(requests)
           /\ legacy.io = io

====
